---- MODULE Spec2Model ----
(***************************************************************************)
(* Model of the page-change detector (detect_page_change tool): one        *)
(* fingerprint (PageState) per tab kept in the module-level WeakMap        *)
(* sessionStates, the handler with its single await, and the scoring       *)
(* functions.                                                              *)
(*                                                                         *)
(* Numbers.  A component score s in [0,1] is the integer s * Scale.  A     *)
(* weight or a threshold v is the integer v * 100 (hundredths).  An        *)
(* aggregate score is therefore in units of 1 / (100 * Scale).  Scale is   *)
(* a multiple of every denominator the bounded inputs can produce, so the  *)
(* divisions below are exact (real arithmetic; IEEE rounding of the        *)
(* JavaScript doubles is not modelled).                                    *)
(*                                                                         *)
(* Strings.  A URL string is a sequence of tokens, e.g.                    *)
(*   <<"https:", "//", "a.test", "/", "x", "?q", "#h">>.                   *)
(* Two URL strings are the same string iff the sequences are equal.        *)
(***************************************************************************)
EXTENDS Integers, Sequences, FiniteSets, TLC

VARIABLES
  page,           \* tab -> the document currently shown in the tab
  sessionStates,  \* the WeakMap: a function whose domain is the tabs that have a fingerprint
  calls,          \* call slot -> the position and data of one handler invocation
  lastCollected,  \* history: tab -> PageState collected by the call that completed last on the tab
  dom,            \* the elements of the current tab's document, in document order
  snapshot,       \* the current tab's accessibility snapshot, NULL when it has none
  tool            \* the position and data of one invocation of a ref, attribute or act tool

vars == <<page, sessionStates, calls, lastCollected, dom, snapshot, tool>>

\* the state of the detector, and the state the other tools work on
detectVars == <<page, sessionStates, calls, lastCollected>>

toolVars == <<dom, snapshot, tool>>

\* ------------------------------------------------------------------ bounds
MaxSegs == 2
MaxElem == 3
MaxForm == 2
MaxLink == 1
MaxRefs == 3
MaxNodes == 12

\* ------------------------------------------------------------- arithmetic
NULL == [null |-> TRUE]

Abs(n) == IF n < 0 THEN -n ELSE n
Min(a, b) == IF a <= b THEN a ELSE b
Max(a, b) == IF a >= b THEN a ELSE b

RECURSIVE Gcd(_, _)
Gcd(a, b) == IF b = 0 THEN a ELSE Gcd(b, a % b)

RECURSIVE LcmUpTo(_)
LcmUpTo(n) == IF n <= 1 THEN 1 ELSE (LcmUpTo(n - 1) * n) \div Gcd(LcmUpTo(n - 1), n)

MaxDenominator == Max(Max(2 * MaxSegs, MaxElem), Max(MaxForm, MaxLink))
Scale == 10 * LcmUpTo(MaxDenominator)

\* ---------------------------------------------------------------- strings
Schemes == {"https:"}
Hosts == {"a.test", "b.test"}
Segs == {"x", "y"}
QueryTokens == {"?q"}
HashTokens == {"#h"}

SeqsUpTo(S, n) == UNION {[1..k -> S] : k \in 0..n}

RECURSIVE JoinPath(_)
\* "/" + seg for every segment: <<"x","y">> -> <<"/","x","/","y">>
JoinPath(segs) == IF segs = <<>> THEN <<>> ELSE <<"/", Head(segs)>> \o JoinPath(Tail(segs))

\* The serialised href of an https URL: the pathname always starts with "/".
Href(host, segs, trailing, q, h) ==
  <<"https:", "//", host>>
    \o (IF segs = <<>> THEN <<"/">> ELSE JoinPath(segs) \o (IF trailing THEN <<"/">> ELSE <<>>))
    \o q \o h

AboutBlank == <<"about:", "blank">>

\* Every href a page of the model can have.
Urls ==
  {AboutBlank} \cup
  {Href(host, segs, tr, q, h) :
     host \in Hosts, segs \in SeqsUpTo(Segs, MaxSegs), tr \in BOOLEAN,
     q \in {<<>>} \cup {<<t>> : t \in QueryTokens},
     h \in {<<>>} \cup {<<t>> : t \in HashTokens}}

\* ---------------------------------------------------------- new URL(href)
RECURSIVE TakePath(_)
\* the tokens up to the first query or hash token
TakePath(s) ==
  IF s = <<>> \/ Head(s) \in QueryTokens \cup HashTokens THEN <<>>
  ELSE <<Head(s)>> \o TakePath(Tail(s))

FirstIn(s, T) ==
  LET hits == SelectSeq(s, LAMBDA t : t \in T)
  IN IF hits = <<>> THEN "" ELSE Head(hits)

\* new URL(s): NULL when the constructor throws.
ParseUrl(s) ==
  IF Len(s) >= 3 /\ s[1] \in Schemes /\ s[2] = "//"
  THEN LET rest == SubSeq(s, 4, Len(s))
       IN [hostname |-> s[3],
           pathname |-> TakePath(rest),
           search   |-> FirstIn(rest, QueryTokens),
           hash     |-> FirstIn(rest, HashTokens)]
  ELSE IF Len(s) >= 2 /\ s[1] = "about:"
  THEN [hostname |-> "", pathname |-> SubSeq(s, 2, Len(s)), search |-> "", hash |-> ""]
  ELSE NULL

RECURSIVE SplitSlash(_, _)
\* pathname.split('/'): the pieces between the "/" tokens, "" for an empty piece
SplitSlash(s, piece) ==
  IF s = <<>> THEN <<piece>>
  ELSE IF Head(s) = "/" THEN <<piece>> \o SplitSlash(Tail(s), "")
  ELSE SplitSlash(Tail(s), Head(s))

\* pathname.split('/').filter(p => p)
PathParts(pathname) == SelectSeq(SplitSlash(pathname, ""), LAMBDA p : p # "")

Range(s) == {s[i] : i \in DOMAIN s}

\* the analysis of two parsed URLs of one hostname and different strings
SameHostScore(prev, curr) ==
  LET prevParts == PathParts(prev.pathname)
      currParts == PathParts(curr.pathname)
      allParts == Range(prevParts) \cup Range(currParts)
      commonParts == Range(SelectSeq(prevParts, LAMBDA p : p \in Range(currParts)))
  IN IF Cardinality(allParts) = 0 THEN 0
     ELSE LET pathSimilarity == (Cardinality(commonParts) * Scale) \div Cardinality(allParts)
              pathChangeScore == Scale - pathSimilarity
              queryChanged == IF prev.search # curr.search THEN (3 * Scale) \div 10 ELSE 0
              hashChanged == IF prev.hash # curr.hash THEN Scale \div 10 ELSE 0
          IN Min(Scale, pathChangeScore + queryChanged + hashChanged)

calculateUrlChangeScore_NoHostCheck(previousUrl, currentUrl) ==
  IF previousUrl = <<>> \/ currentUrl = <<>> THEN Scale
  ELSE LET prev == ParseUrl(previousUrl)
           curr == ParseUrl(currentUrl)
       IN IF prev = NULL \/ curr = NULL
          THEN (IF previousUrl = currentUrl THEN 0 ELSE Scale)
          ELSE IF previousUrl = currentUrl THEN 0
          ELSE SameHostScore(prev, curr)

calculateUrlChangeScore(previousUrl, currentUrl) ==
  IF previousUrl = <<>> \/ currentUrl = <<>> THEN Scale
  ELSE LET prev == ParseUrl(previousUrl)
           curr == ParseUrl(currentUrl)
       IN IF prev = NULL \/ curr = NULL
          THEN (IF previousUrl = currentUrl THEN 0 ELSE Scale)
          ELSE IF prev.hostname # curr.hostname THEN Scale
          ELSE IF previousUrl = currentUrl THEN 0
          ELSE SameHostScore(prev, curr)

\* -------------------------------------------------------------- documents
Titles == {"T", "U"}

\* counts of nav, header, footer, main, section, article, aside
NoLandmarks == <<0, 0, 0, 0, 0, 0, 0>>
OneNav == <<1, 0, 0, 0, 0, 0, 0>>
LandmarkCounts == {NoLandmarks, OneNav}

Document(u, t, e, lm, f, l) ==
  [url |-> u, title |-> t, elemCount |-> e, landmarks |-> lm,
   formElementCount |-> f, linkElementCount |-> l, headingCount |-> 0]

RECURSIVE JoinDash(_)
\* counts.join('-'): one token per character, every count being a single digit
JoinDash(counts) ==
  IF counts = <<>> THEN <<>>
  ELSE IF Len(counts) = 1 THEN <<ToString(Head(counts))>>
  ELSE <<ToString(Head(counts)), "-">> \o JoinDash(Tail(counts))

\* btoa(sig).substring(0, 16): base64 maps each 3 characters to 4, so the first
\* 16 characters of the encoding are determined by, and determine, the first 12
\* characters of sig.
Btoa16(sig) == SubSeq(sig, 1, Min(12, Len(sig)))

collectPageState(doc) ==
  [url |-> doc.url,
   title |-> doc.title,
   elemCount |-> doc.elemCount,
   domStructureHash |-> Btoa16(JoinDash(doc.landmarks)),
   formElementCount |-> doc.formElementCount,
   linkElementCount |-> doc.linkElementCount,
   headingCount |-> doc.headingCount]

\* ---------------------------------------------------------------- scoring
\* Math.min(1.0, Math.abs(cur - prev) / prev), prev > 0
RelativeDelta(prev, cur) == Min(Scale, (Abs(cur - prev) * Scale) \div prev)

ZeroAwareDelta_ZeroIsFull(prev, cur) ==
  IF prev = 0 THEN Scale ELSE RelativeDelta(prev, cur)

\* the form and link scores: 0.0 from zero to zero, 1.0 from zero to nonzero
ZeroAwareDelta(prev, cur) ==
  IF prev = 0 /\ cur = 0 THEN 0
  ELSE IF prev = 0 THEN (IF cur > 0 THEN Scale ELSE 0)
  ELSE RelativeDelta(prev, cur)

calculateNumericalChanges(previous, current) ==
  IF previous = NULL
  THEN [url |-> Scale, title |-> Scale, elem |-> Scale,
        domStructure |-> Scale, formElements |-> Scale, linkElements |-> Scale]
  ELSE [url |-> calculateUrlChangeScore(previous.url, current.url),
        title |-> IF previous.title # current.title THEN Scale ELSE 0,
        elem |-> IF previous.elemCount = 0 THEN Scale
                 ELSE RelativeDelta(previous.elemCount, current.elemCount),
        domStructure |-> IF previous.domStructureHash # current.domStructureHash THEN Scale ELSE 0,
        formElements |-> ZeroAwareDelta(previous.formElementCount, current.formElementCount),
        linkElements |-> ZeroAwareDelta(previous.linkElementCount, current.linkElementCount)]

\* in units of 1 / (100 * Scale)
calculateWeightedScore(components, weights) ==
  weights.url * components.url
  + weights.title * components.title
  + weights.elem * components.elem
  + weights.domStructure * components.domStructure
  + weights.formElements * components.formElements
  + weights.linkElements * components.linkElements

determineChangeType_StructuralFirst(components) ==
  IF 10 * components.domStructure > 5 * Scale \/ 10 * components.formElements > 5 * Scale
  THEN "structural"
  ELSE IF 10 * components.url > 7 * Scale THEN "navigation"
  ELSE IF components.title > 0 \/ 10 * components.elem > 3 * Scale THEN "content"
  ELSE "none"

determineChangeType(components) ==
  IF 10 * components.url > 7 * Scale THEN "navigation"
  ELSE IF 10 * components.domStructure > 5 * Scale \/ 10 * components.formElements > 5 * Scale
  THEN "structural"
  ELSE IF components.title > 0 \/ 10 * components.elem > 3 * Scale THEN "content"
  ELSE "none"

DEFAULT_WEIGHTS_LowUrl ==
  [url |-> 25, title |-> 20, elem |-> 20, domStructure |-> 25,
   formElements |-> 5, linkElements |-> 5]

DEFAULT_WEIGHTS ==
  [url |-> 40, title |-> 15, elem |-> 15, domStructure |-> 20,
   formElements |-> 5, linkElements |-> 5]

DefaultThreshold == 30

MergeWeights_OverrideOnly(override) ==
  [k \in DOMAIN DEFAULT_WEIGHTS |->
     IF override = NULL THEN DEFAULT_WEIGHTS[k]
     ELSE IF k \in DOMAIN override THEN override[k] ELSE 0]

\* { ...DEFAULT_WEIGHTS, ...params.weights }: params.weights is NULL (absent) or a
\* record naming some of the six components
MergeWeights(override) ==
  [k \in DOMAIN DEFAULT_WEIGHTS |->
     IF override # NULL /\ k \in DOMAIN override THEN override[k] ELSE DEFAULT_WEIGHTS[k]]

Summary(state) == [url |-> state.url, title |-> state.title, elemCount |-> state.elemCount]

\* ------------------------------------------------------------ the handler
Tabs == {"tabA", "tabB"}
Calls == {"c1", "c2"}

\* sessionStates.get(tab) ?? null
SessionGet(states, tab) == IF tab \in DOMAIN states THEN states[tab] ELSE NULL

SessionKey_Global(tab) == "tabA"

\* the key under which a tab's fingerprint is kept: the tab object itself
SessionKey(tab) == tab

\* sessionStates.set(tab, value)
SessionSet(states, tab, value) ==
  [k \in DOMAIN states \cup {tab} |-> IF k = tab THEN value ELSE states[k]]

SeedBranch_FirstCallOnly(params, previous) == previous = NULL

SeedBranch_FlagOnly(params, previous) == params.seed

\* if (params.seed || previous === null)
SeedBranch(params, previous) == params.seed \/ previous = NULL

\* score >= params.threshold
IsSignificant_Strict(score, threshold) == score > threshold * Scale

IsSignificant(score, threshold) == score >= threshold * Scale

StoredValue_KeepBaseline(previous, current) ==
  IF previous = NULL THEN current ELSE previous

StoredValue_MergeUrl(previous, current) ==
  IF previous = NULL THEN current ELSE [previous EXCEPT !.url = current.url]

\* the value both branches pass to sessionStates.set
StoredValue(previous, current) == current

SeedResult(current) ==
  [significant_change |-> FALSE,
   score |-> 0,
   change_type |-> "seed",
   components |-> <<>>,
   current |-> Summary(current),
   previous |-> NULL]

DetectResult(previous, current, params) ==
  LET changeComponents == calculateNumericalChanges(previous, current)
      weights == MergeWeights(params.weights)
      score == calculateWeightedScore(changeComponents, weights)
  IN [significant_change |-> IsSignificant(score, params.threshold),
      score |-> score,
      change_type |-> determineChangeType(changeComponents),
      components |-> changeComponents,
      current |-> Summary(current),
      previous |-> IF previous # NULL THEN Summary(previous) ELSE NULL]

\* the returned JSON of the part of handle that runs after the await
HandleResult(previous, current, params) ==
  IF SeedBranch(params, previous) THEN SeedResult(current)
  ELSE DetectResult(previous, current, params)

\* no invocation of another tool is in progress
IdleTool == [pc |-> "idle", name |-> "-", params |-> NULL, result |-> NULL]

\* the other tools are at rest on an empty document
ToolsAtRest == dom = <<>> /\ snapshot = NULL /\ tool = IdleTool

IdleSlot ==
  [pc |-> "idle", tab |-> "-", params |-> NULL, current |-> NULL, previous |-> NULL,
   result |-> NULL]

\* handle is entered: context.currentTabOrDie(), page.evaluate is sent
Start(c, t, params) ==
  /\ calls[c].pc = "idle"
  /\ calls' = [calls EXCEPT ![c] = [IdleSlot EXCEPT !.pc = "collecting", !.tab = t, !.params = params]]
  /\ UNCHANGED <<page, sessionStates, lastCollected>>
  /\ UNCHANGED toolVars

\* the script of collectPageState runs in the page
Collect(c) ==
  /\ calls[c].pc = "collecting"
  /\ calls' = [calls EXCEPT ![c].pc = "collected",
                            ![c].current = collectPageState(page[calls[c].tab])]
  /\ UNCHANGED <<page, sessionStates, lastCollected>>
  /\ UNCHANGED toolVars

CollectFail_DropsFingerprint(c) ==
  /\ calls[c].pc = "collecting"
  /\ calls' = [calls EXCEPT ![c].pc = "failed"]
  /\ sessionStates' = [t \in DOMAIN sessionStates \ {calls[c].tab} |-> sessionStates[t]]
  /\ UNCHANGED <<page, lastCollected>>
  /\ UNCHANGED toolVars

\* page.evaluate rejects: the await throws and handle is left
CollectFail(c) ==
  /\ calls[c].pc = "collecting"
  /\ calls' = [calls EXCEPT ![c].pc = "failed"]
  /\ UNCHANGED <<page, sessionStates, lastCollected>>
  /\ UNCHANGED toolVars

\* the continuation after the await, which runs without suspension to the return
Finish(c) ==
  /\ calls[c].pc = "collected"
  /\ LET tab == calls[c].tab
         current == calls[c].current
         previous == SessionGet(sessionStates, SessionKey(tab))
     IN /\ sessionStates' = SessionSet(sessionStates, SessionKey(tab), StoredValue(previous, current))
        /\ calls' = [calls EXCEPT ![c].pc = "done",
                                  ![c].previous = previous,
                                  ![c].result = HandleResult(previous, current, calls[c].params)]
        /\ lastCollected' = [lastCollected EXCEPT ![tab] = current]
  /\ UNCHANGED page
  /\ UNCHANGED toolVars

\* the response (or the error) is delivered and the slot is free again
Return(c) ==
  /\ calls[c].pc \in {"done", "failed"}
  /\ calls' = [calls EXCEPT ![c] = IdleSlot]
  /\ UNCHANGED <<page, sessionStates, lastCollected>>
  /\ UNCHANGED toolVars

\* the page navigates or its DOM is rebuilt
PageChange(t, doc) ==
  /\ page[t] # doc
  /\ page' = [page EXCEPT ![t] = doc]
  /\ UNCHANGED <<sessionStates, calls, lastCollected>>
  /\ UNCHANGED toolVars

\* -------------------------------------------- the detector with two tabs
UrlAX == Href("a.test", <<"x">>, FALSE, <<>>, <<>>)
UrlAY == Href("a.test", <<"y">>, FALSE, <<>>, <<>>)
UrlARoot == Href("a.test", <<>>, FALSE, <<>>, <<>>)
UrlBRoot == Href("b.test", <<>>, FALSE, <<>>, <<>>)

TabDocs(t) ==
  IF t = "tabA"
  THEN {Document(UrlAX, "T", MaxElem, NoLandmarks, 0, MaxLink),
        Document(UrlAY, "T", 1, NoLandmarks, 0, MaxLink)}
  ELSE {Document(UrlARoot, "T", 1, OneNav, 1, 0),
        Document(UrlBRoot, "U", MaxElem, OneNav, MaxForm, 0)}

WeightOverrides == {NULL, [url |-> 0, title |-> 100]}

Params == [seed : BOOLEAN, threshold : {0, DefaultThreshold}, weights : WeightOverrides]

NoSessions == [t \in {} |-> NULL]

Init ==
  /\ page \in {f \in [Tabs -> UNION {TabDocs(t) : t \in Tabs}] : \A t \in Tabs : f[t] \in TabDocs(t)}
  /\ sessionStates = NoSessions
  /\ calls = [c \in Calls |-> IdleSlot]
  /\ lastCollected = [t \in Tabs |-> NULL]
  /\ ToolsAtRest

Next ==
  \/ \E c \in Calls, t \in Tabs, params \in Params : Start(c, t, params)
  \/ \E c \in Calls : Collect(c)
  \/ \E c \in Calls : CollectFail(c)
  \/ \E c \in Calls : Finish(c)
  \/ \E c \in Calls : Return(c)
  \/ \E t \in Tabs : \E doc \in TabDocs(t) : PageChange(t, doc)

Spec == Init /\ [][Next]_vars

\* ------------------------------- one detect over a pair of fingerprints
\* Tab A holds the fingerprint of one document and shows another one; the
\* handler runs on it once per request.
UrlAXQuery == Href("a.test", <<"x">>, FALSE, <<"?q">>, <<>>)

ScoreUrls == {UrlAX, UrlAXQuery, UrlARoot, UrlBRoot}

ScoreDocs ==
  {Document(u, t, e, lm, f, l) :
     u \in ScoreUrls, t \in Titles, e \in 0..MaxElem, lm \in LandmarkCounts,
     f \in 0..MaxForm, l \in 0..MaxLink}

DefaultParams == [seed |-> FALSE, threshold |-> DefaultThreshold, weights |-> NULL]

ScoreParams ==
  {DefaultParams,
   [seed |-> FALSE, threshold |-> 40, weights |-> NULL],
   [seed |-> FALSE, threshold |-> DefaultThreshold, weights |-> [url |-> 0, title |-> 100]]}

IdlePage == CHOOSE doc \in TabDocs("tabB") : doc.url = UrlARoot

InitPair(docs) ==
  /\ \E doc \in docs : page = [t \in Tabs |-> IF t = "tabA" THEN doc ELSE IdlePage]
  /\ \E doc \in docs :
       /\ sessionStates = [t \in {"tabA"} |-> collectPageState(doc)]
       /\ lastCollected = [t \in Tabs |-> IF t = "tabA" THEN collectPageState(doc) ELSE NULL]
  /\ calls = [c \in Calls |-> IdleSlot]
  /\ ToolsAtRest

InitScore == InitPair(ScoreDocs)

NextScore ==
  \/ \E params \in ScoreParams : Start("c1", "tabA", params)
  \/ Collect("c1")
  \/ Finish("c1")
  \/ Return("c1")

SpecScore == InitScore /\ [][NextScore]_vars

\* ---------------------------------------- one detect over a pair of URLs
\* As above, over every URL of the model and few other differences.
UrlDocs == {Document(u, "T", e, NoLandmarks, 0, MaxLink) : u \in Urls, e \in {0, MaxElem}}

InitUrl == InitPair(UrlDocs)

NextUrl ==
  \/ Start("c1", "tabA", DefaultParams)
  \/ Collect("c1")
  \/ Finish("c1")
  \/ Return("c1")

SpecUrl == InitUrl /\ [][NextUrl]_vars

\* ------------------------------------------------------ refs and elements
\* A ref, a selector or an attribute value is a string, written as the
\* sequence of its characters; getAttribute of an attribute the element does
\* not carry is null, an optional parameter the request does not carry is
\* undefined.
NoAttr == <<"null">>

Undefined == <<"undefined">>

\* a string used as a condition: null, undefined and "" are falsy
Truthy(str) == str # NoAttr /\ str # Undefined /\ str # <<>>

DigitChars == <<"0", "1", "2", "3", "4", "5", "6", "7", "8", "9">>

IsDigit(ch) == \E i \in 1..Len(DigitChars) : DigitChars[i] = ch

\* refId.replace(/[^0-9]/g, '')
DigitsOf(str) == SelectSeq(str, IsDigit)

RECURSIVE DecimalValue(_)
\* parseInt(str, 10) of a string of decimal digits
DecimalValue(str) ==
  IF str = <<>> THEN 0
  ELSE 10 * DecimalValue(SubSeq(str, 1, Len(str) - 1))
         + (CHOOSE i \in 1..Len(DigitChars) : DigitChars[i] = str[Len(str)]) - 1

RECURSIVE ToChars(_)
\* the decimal digits of a natural number
ToChars(n) ==
  IF n < 10 THEN <<DigitChars[n + 1]>>
  ELSE ToChars(n \div 10) \o <<DigitChars[(n % 10) + 1]>>

\* a property key that is a canonical array index ("0", "1", "12", not "01")
IsArrayIndex(key) ==
  /\ key # <<>>
  /\ \A i \in 1..Len(key) : IsDigit(key[i])
  /\ Len(key) = 1 \/ key[1] # "0"

\* A plain object is the sequence of its own properties in enumeration order
\* (the order of JSON.stringify and Object.keys): array-index keys ascending
\* first, then the other keys in the order in which they were created.
HasKey(obj, key) == \E i \in 1..Len(obj) : obj[i].key = key

\* in an object holding both, an existing key old stays before the new key
StaysBefore(old, new) ==
  IF IsArrayIndex(new)
  THEN IsArrayIndex(old) /\ DecimalValue(old) < DecimalValue(new)
  ELSE TRUE

\* obj[key] = value
ObjectSet(obj, key, value) ==
  IF HasKey(obj, key)
  THEN [i \in 1..Len(obj) |-> IF obj[i].key = key THEN [key |-> key, value |-> value] ELSE obj[i]]
  ELSE LET p == Cardinality({i \in 1..Len(obj) : StaysBefore(obj[i].key, key)})
       IN SubSeq(obj, 1, p) \o <<[key |-> key, value |-> value]>> \o SubSeq(obj, p + 1, Len(obj))

\* An element of the document: its id, its two ref attributes and whether it
\* is hidden (not rendered, so not visible).
Element(id, ariaRef, dataRef, hidden) ==
  [id |-> id, ariaRef |-> ariaRef, dataRef |-> dataRef, hidden |-> hidden]

\* tab.captureSnapshot: the refs of the nodes of the new snapshot
CaptureSnapshot(d, includeHidden) ==
  LET Eligible(el) == (el.ariaRef # NoAttr \/ el.dataRef # NoAttr) /\ (includeHidden \/ ~el.hidden)
      nodes == SelectSeq(d, Eligible)
  IN [nodes |-> [i \in 1..Len(nodes) |->
                   IF nodes[i].dataRef # NoAttr THEN nodes[i].dataRef ELSE nodes[i].ariaRef]]

\* the first of a set of positions in the document, 0 when there is none
FirstIndex(S) == IF S = {} THEN 0 ELSE CHOOSE i \in S : \A j \in S : i <= j

\* snapshot.refLocator({ref, element}) followed by locator.evaluate: the index
\* of the element the script runs on, 0 when the locator matches no element.
\* The data-ref attribute is tried first, then the aria-ref attribute.
refLocator(d, ref) ==
  LET byData == {i \in 1..Len(d) : d[i].dataRef = ref}
      byAria == {i \in 1..Len(d) : d[i].ariaRef = ref}
  IN IF byData # {} THEN FirstIndex(byData) ELSE FirstIndex(byAria)

\* locator.evaluate(script, {timeout: 3000}): the engine may fail (timeout,
\* detached element) although the element exists
Located(d, ref, engineOk) == IF engineOk THEN refLocator(d, ref) ELSE 0

\* tab.page.locator(selector) followed by an evaluation or an action: the
\* index of the element a selector of the form #id finds, 0 when it matches
\* none or the engine fails
cssLocator(d, selector, engineOk) ==
  LET byId == {i \in 1..Len(d) : Len(selector) = 2 /\ selector[1] = "#" /\ d[i].id = selector[2]}
  IN IF engineOk THEN FirstIndex(byId) ELSE 0

\* the tool's invocation ends: the response is delivered
ToolReturn ==
  /\ tool.pc = "done"
  /\ tool' = IdleTool
  /\ UNCHANGED <<dom, snapshot>>
  /\ UNCHANGED detectVars

\* a rejected request or a handler that threw is answered with the error
ToolError ==
  /\ tool.pc \in {"rejected", "thrown"}
  /\ tool' = IdleTool
  /\ UNCHANGED <<dom, snapshot>>
  /\ UNCHANGED detectVars

\* the page's script rebuilds the document between two steps of a tool
DomChange(d) ==
  /\ dom # d
  /\ dom' = d
  /\ UNCHANGED <<snapshot, tool>>
  /\ UNCHANGED detectVars

\* the detector is at rest with no fingerprint
DetectorAtRest ==
  /\ page = [t \in Tabs |-> IdlePage]
  /\ sessionStates = NoSessions
  /\ calls = [c \in Calls |-> IdleSlot]
  /\ lastCollected = [t \in Tabs |-> NULL]

\* The documents of the attribute and act tools: a with aria-ref e1, b hidden
\* with data-ref 2, c with aria-ref 1.
ToolDoms ==
  {<<Element("a", <<"e", "1">>, NoAttr, FALSE), Element("b", NoAttr, <<"2">>, TRUE),
     Element("c", <<"1">>, NoAttr, FALSE)>>,
   <<Element("c", <<"1">>, NoAttr, FALSE), Element("a", <<"e", "1">>, NoAttr, FALSE)>>}

\* ------------------------------------------ browser_get_bulk_attributes
\* refs: z.array(z.string()).min(1)
bulkAttributesSchema(params) == Len(params.refs) >= 1

\* the script of the bulk tool returns the visibility flag only
BulkPayload(el) == [isVisible |-> ~el.hidden]

\* { error: String(error?.message || error), ref }
BulkErrorEntry(ref) == [error |-> "error", ref |-> ref]

BulkRefCatch_Abort(tl, ref) ==
  [tl EXCEPT !.pc = "done",
             !.result = [text |-> "Bulk attributes extraction failed", data |-> NULL]]

\* the catch inside the loop: results[ref] = {error, ref}
BulkRefCatch(tl, ref) == [tl EXCEPT !.results = ObjectSet(@, ref, BulkErrorEntry(ref))]

\* the next ref of the loop, or the return of { attributes: results } after
\* the last one
BulkAdvance(tl) ==
  IF tl.pc = "done" THEN tl
  ELSE IF tl.i = Len(tl.params.refs)
       THEN [tl EXCEPT !.pc = "done",
                       !.result = [text |-> "payload", data |-> [attributes |-> tl.results]]]
       ELSE [tl EXCEPT !.i = @ + 1]

\* handle is entered with validated params
getBulkAttributes(params) ==
  /\ tool.pc = "idle"
  /\ bulkAttributesSchema(params)
  /\ tool' = [pc |-> "snapshot", name |-> "browser_get_bulk_attributes", params |-> params,
              result |-> NULL, i |-> 1, results |-> <<>>, trace |-> <<>>]
  /\ UNCHANGED <<dom, snapshot>>
  /\ UNCHANGED detectVars

\* if (!tab.hasSnapshot()) await tab.captureSnapshot({}); tab.snapshotOrDie().
\* captured says whether the capture left the tab with a snapshot; without
\* one the outer catch returns the batch-level error.
getBulkAttributes_snapshot(captured) ==
  /\ tool.name = "browser_get_bulk_attributes" /\ tool.pc = "snapshot"
  /\ snapshot' = IF snapshot # NULL THEN snapshot
                 ELSE IF captured THEN CaptureSnapshot(dom, FALSE) ELSE NULL
  /\ tool' = IF snapshot' # NULL THEN [tool EXCEPT !.pc = "loop"]
             ELSE [tool EXCEPT !.pc = "done",
                               !.result = [text |-> "Bulk attributes extraction failed", data |-> NULL]]
  /\ UNCHANGED dom
  /\ UNCHANGED detectVars

\* one iteration of for (const ref of params.refs), up to the next await or
\* to the return
getBulkAttributes_ref(engineOk) ==
  /\ tool.name = "browser_get_bulk_attributes" /\ tool.pc = "loop"
  /\ LET ref == tool.params.refs[tool.i]
         el == Located(dom, ref, engineOk)
         logged == [tool EXCEPT !.trace = Append(@, [ref |-> ref, el |-> IF el = 0 THEN NULL ELSE dom[el]])]
         stepped == IF el # 0
                    THEN [logged EXCEPT !.results = ObjectSet(@, ref, BulkPayload(dom[el]))]
                    ELSE BulkRefCatch(logged, ref)
     IN tool' = BulkAdvance(stepped)
  /\ UNCHANGED <<dom, snapshot>>
  /\ UNCHANGED detectVars

\* ---------------------------------------- browser_get_element_attributes
\* The resolution of the earlier variant of the tool: when no element carries
\* the ref, the digits of the ref index the list of all elements (from 0).
RefPathElement_NumericFallback(d, ref, engineOk) ==
  LET found == Located(d, ref, engineOk)
      refNum == DecimalValue(DigitsOf(ref))
  IN IF found # 0 \/ ~engineOk THEN found
     ELSE IF DigitsOf(ref) # <<>> /\ refNum < Len(d) THEN refNum + 1 ELSE 0

\* the element the ref path extracts from: refLocator, then locator.evaluate
RefPathElement(d, ref, engineOk) == Located(d, ref, engineOk)

\* the extraction_method literal of each branch
ExtractionMethod(path) ==
  IF path = "ref" THEN "mcp-aria-ref-direct" ELSE "css-selector-legacy"

\* the object the script returns for the element
AttrPayload(el, path) ==
  [id |-> el.id, isVisible |-> ~el.hidden, extraction_method |-> ExtractionMethod(path)]

\* the catch: the message goes into the text content, nothing is thrown
AttrFailed(message) ==
  [text |-> <<"Element attributes extraction failed: ", message>>, data |-> NULL]

AttrBranch_SelectorFirst(params) ==
  IF Truthy(params.selector) THEN "selector"
  ELSE IF Truthy(params.ref) THEN "ref" ELSE "neither"

\* if (params.ref) ... else if (params.selector) ... else throw
AttrBranch(params) ==
  IF Truthy(params.ref) THEN "ref"
  ELSE IF Truthy(params.selector) THEN "selector" ELSE "neither"

\* the body of the try block and its catch: the path taken, the element it
\* extracted from and the result of the call ({ attributes } as content and
\* data, or the text of the catch)
AttrOutcome(params, d, snap, engineOk) ==
  LET path == AttrBranch(params)
      el == IF path = "ref"
            THEN (IF snap = NULL THEN 0 ELSE RefPathElement(d, params.ref, engineOk))
            ELSE IF path = "selector" THEN cssLocator(d, params.selector, engineOk)
            ELSE 0
  IN [path |-> path,
      el |-> IF el = 0 THEN NULL ELSE d[el],
      result |-> IF path = "neither"
                 THEN AttrFailed("Either ref or selector parameter is required")
                 ELSE IF el = 0 THEN AttrFailed("error")
                 ELSE [text |-> <<"payload">>, data |-> [attributes |-> AttrPayload(d[el], path)]]]

\* handle is entered; selector and ref are optional strings
getElementAttributes(params) ==
  /\ tool.pc = "idle"
  /\ tool' = [pc |-> "evaluate", name |-> "browser_get_element_attributes", params |-> params,
              result |-> NULL, path |-> "-", el |-> NULL, seen |-> <<>>]
  /\ UNCHANGED <<dom, snapshot>>
  /\ UNCHANGED detectVars

\* the try block runs to its return or into the catch; the script of
\* locator.evaluate runs on the document as it is then
getElementAttributes_evaluate(engineOk) ==
  /\ tool.name = "browser_get_element_attributes" /\ tool.pc = "evaluate"
  /\ LET out == AttrOutcome(tool.params, dom, snapshot, engineOk)
     IN tool' = [tool EXCEPT !.pc = "done", !.result = out.result, !.path = out.path,
                             !.el = out.el, !.seen = dom]
  /\ UNCHANGED <<dom, snapshot>>
  /\ UNCHANGED detectVars

\* ------------------------------------------------------------ act tools
ActTools ==
  {"browser_click", "browser_hover", "browser_select_option", "browser_fill", "browser_check"}

\* data.ref && typeof data.ref === 'string' && data.ref.trim().length > 0:
\* the trimmed string is not empty iff some character is not a space
NonEmptyString(str) == Truthy(str) /\ \E i \in 1..Len(str) : str[i] # " "

\* the refinement of elementSchema and clickSchema
HasRefOrSelector(params) == NonEmptyString(params.ref) \/ NonEmptyString(params.selector)

\* baseElementSchema: element is a string, ref and selector are optional strings
baseElementSchema(params) == params.element # Undefined

\* the tools whose input schema carries the refinement: click (clickSchema)
\* and hover (elementSchema); select, fill and check extend baseElementSchema
Refined(name) == name \in {"browser_click", "browser_hover"}

\* the input schema of the act tool called name
inputSchema(name, params) ==
  /\ baseElementSchema(params)
  /\ Refined(name) => HasRefOrSelector(params)

ActLocator_RefFirst(params) ==
  IF Truthy(params.ref) THEN [by |-> "ref", value |-> params.ref]
  ELSE IF Truthy(params.selector) THEN [by |-> "selector", value |-> params.selector]
  ELSE [by |-> "data-ref", value |-> params.element]

\* the locator every act handler builds
ActLocator(params) ==
  IF Truthy(params.selector) THEN [by |-> "selector", value |-> params.selector]
  ELSE IF Truthy(params.ref) THEN [by |-> "ref", value |-> params.ref]
  ELSE [by |-> "data-ref", value |-> params.element]

\* the element the locator finds when the action is dispatched, 0 for none
ActElement(locator, d, engineOk) ==
  LET byDataRef == {i \in 1..Len(d) : d[i].dataRef = locator.value}
  IN IF locator.by = "selector" THEN cssLocator(d, locator.value, engineOk)
     ELSE IF locator.by = "ref" THEN Located(d, locator.value, engineOk)
     ELSE IF engineOk THEN FirstIndex(byDataRef) ELSE 0

\* the request does not parse against the tool's input schema: handle is
\* not called
actRejected(name, params) ==
  /\ tool.pc = "idle"
  /\ ~inputSchema(name, params)
  /\ tool' = [pc |-> "rejected", name |-> name, params |-> params, result |-> NULL,
              locator |-> NULL]
  /\ UNCHANGED <<dom, snapshot>>
  /\ UNCHANGED detectVars

\* handle of an act tool: the locator is built, snapshotOrDie throws when the
\* ref is to be used and the tab has no snapshot
act(name, params) ==
  /\ tool.pc = "idle"
  /\ inputSchema(name, params)
  /\ LET locator == ActLocator(params)
     IN tool' = [pc |-> IF locator.by = "ref" /\ snapshot = NULL THEN "thrown" ELSE "action",
                 name |-> name, params |-> params, result |-> NULL, locator |-> locator]
  /\ UNCHANGED <<dom, snapshot>>
  /\ UNCHANGED detectVars

\* the returned action runs: locator.click(), fill(), check(), ...
actAction(engineOk) ==
  /\ tool.name \in ActTools /\ tool.pc = "action"
  /\ LET el == ActElement(tool.locator, dom, engineOk)
     IN tool' = IF el = 0 THEN [tool EXCEPT !.pc = "thrown"]
                ELSE [tool EXCEPT !.pc = "done", !.result = [acted |-> dom[el].id]]
  /\ UNCHANGED <<dom, snapshot>>
  /\ UNCHANGED detectVars

ActParams ==
  [ref : {Undefined, <<>>, <<" ">>, <<"e", "1">>}, selector : {Undefined, <<>>, <<"#", "a">>},
   element : {Undefined, <<"2">>, <<"d">>}]

\* ------------------------------------------------------ browser_snapshot
\* maxInteractiveRefs: z.number().min(50).max(300).default(120)
SnapshotMinRefs == 50
SnapshotMaxRefs == 300
SnapshotDefaultRefs == 120

snapshotSchema(params) ==
  params.maxInteractiveRefs >= SnapshotMinRefs /\ params.maxInteractiveRefs <= SnapshotMaxRefs

\* handle is entered with validated params; context.ensureTab()
snapshotTool(params) ==
  /\ tool.pc = "idle"
  /\ snapshotSchema(params)
  /\ tool' = [pc |-> "capture", name |-> "browser_snapshot", params |-> params,
              result |-> NULL, after |-> NULL, tree |-> <<>>]
  /\ UNCHANGED <<dom, snapshot>>
  /\ UNCHANGED detectVars

\* await tab.captureSnapshot(...): the tab has a new snapshot ("captured"),
\* the capture ends without one and leaves the tab's snapshot as it was
\* ("none"), or it throws. Then
\* snapshot = tab.hasSnapshot() ? tab.snapshotOrDie() : null and
\* accessibility_tree = snapshot ? snapshot.text() : ''.
snapshotTool_capture(outcome) ==
  /\ tool.name = "browser_snapshot" /\ tool.pc = "capture"
  /\ snapshot' = IF outcome = "captured"
                 THEN CaptureSnapshot(dom, tool.params.includeHidden) ELSE snapshot
  /\ tool' = IF outcome = "throws" THEN [tool EXCEPT !.pc = "thrown"]
             ELSE [tool EXCEPT !.pc = "evaluate", !.after = snapshot',
                               !.tree = IF snapshot' # NULL THEN snapshot'.nodes ELSE <<>>]
  /\ UNCHANGED dom
  /\ UNCHANGED detectVars

\* await tab.page.evaluate(...) and the return of enhancedPayload
snapshotTool_evaluate(engineOk) ==
  /\ tool.name = "browser_snapshot" /\ tool.pc = "evaluate"
  /\ tool' = IF engineOk
             THEN [tool EXCEPT !.pc = "done",
                               !.result = [text |-> "payload",
                                           data |-> [html |-> dom, accessibility_tree |-> tool.tree]]]
             ELSE [tool EXCEPT !.pc = "thrown"]
  /\ UNCHANGED <<dom, snapshot>>
  /\ UNCHANGED detectVars

\* ------------------------------------------------ browser_expect_element
\* the assertion types whose case of the switch begins with a test of the
\* expected value
ValueAssertions ==
  {"toHaveText", "toContainText", "toHaveValue", "toHaveId", "toHaveRole",
   "toHaveAccessibleName", "toHaveAttribute", "toHaveClass", "toHaveCount"}

\* expectedValue = value ?? expected, and the test at the head of the case:
\* expectedValue === undefined for toHaveCount, !expectedValue for the others
MissingValue(params) ==
  LET expectedValue == IF params.value # Undefined THEN params.value ELSE params.expected
  IN IF params.assertion = "toHaveCount" THEN expectedValue = Undefined
     ELSE ~Truthy(expectedValue)

\* the switch up to its first await: the case of a value assertion throws for
\* a missing value and the catch rethrows; otherwise the first call on the
\* locator is made (waitFor, or count for toHaveCount)
ExpectSwitch(tl) ==
  IF tl.params.assertion \in ValueAssertions /\ MissingValue(tl.params)
  THEN [tl EXCEPT !.pc = "thrown"]
  ELSE [tl EXCEPT !.pc = "assert",
                  !.trace = Append(@, IF tl.params.assertion = "toHaveCount"
                                      THEN "count" ELSE "waitFor")]

\* handle is entered: with a ref, locator.count() is called on the ref's
\* locator; without one the locator of element is taken and the switch runs.
\* trace lists the calls made to the browser.
elementAssertion(params) ==
  /\ tool.pc = "idle"
  /\ params.element # Undefined
  /\ LET entered == [pc |-> "locate", name |-> "browser_expect_element", params |-> params,
                     result |-> NULL, trace |-> <<>>, locator |-> NULL]
     IN tool' = IF Truthy(params.ref)
                THEN [entered EXCEPT !.trace = <<"count">>]
                ELSE ExpectSwitch([entered EXCEPT !.locator = [by |-> "element", value |-> params.element]])
  /\ UNCHANGED <<dom, snapshot>>
  /\ UNCHANGED detectVars

\* await locator.count() of the ref's locator returns or throws: the locator
\* of element replaces it when nothing carries the ref or the call failed
elementAssertion_locate(outcome) ==
  /\ tool.name = "browser_expect_element" /\ tool.pc = "locate"
  /\ tool' = ExpectSwitch([tool EXCEPT !.locator =
                             IF outcome = "found" THEN [by |-> "data-mcp-ref", value |-> tool.params.ref]
                             ELSE [by |-> "element", value |-> tool.params.element]])
  /\ UNCHANGED <<dom, snapshot>>
  /\ UNCHANGED detectVars

\* the awaited calls of the case end: the assertion holds and handle returns,
\* or a call failed or the comparison did not match and the catch rethrows
elementAssertion_assert(passed) ==
  /\ tool.name = "browser_expect_element" /\ tool.pc = "assert"
  /\ tool' = IF passed THEN [tool EXCEPT !.pc = "done", !.result = [code |-> tool.params.assertion]]
             ELSE [tool EXCEPT !.pc = "thrown"]
  /\ UNCHANGED <<dom, snapshot>>
  /\ UNCHANGED detectVars

ExpectParams ==
  [element : {Undefined, <<"#", "a">>}, ref : {Undefined, <<>>, <<"e", "1">>},
   assertion : {"toBeVisible", "toHaveText", "toHaveId", "toHaveCount"},
   value : {Undefined, <<>>, <<"1">>}, expected : {Undefined, <<"1">>}]

\* ---------------------------------------------------------- browser_type
TypeSteps_AlwaysSubmit(params) ==
  <<IF params.slowly THEN "pressSequentially" ELSE "fill", "press">>

\* the steps the handler collects: the text entry, then Enter when
\* params.submit
TypeSteps(params) ==
  <<IF params.slowly THEN "pressSequentially" ELSE "fill">>
    \o (IF params.submit THEN <<"press">> ELSE <<>>)

\* acc.then(step): a step that has resolved is followed by the next one, and
\* the action resolves after the last. pressSequentially resolves when every
\* character of the text has been keyed.
TypeAdvance(tl) ==
  LET resolved == tl.steps[tl.i] # "pressSequentially" \/ tl.j > Len(tl.params.text)
      next == IF resolved THEN [tl EXCEPT !.i = @ + 1, !.j = 1] ELSE tl
  IN IF next.i > Len(next.steps) THEN [next EXCEPT !.pc = "done", !.result = [typed |-> next.keys]]
     ELSE next

\* handle: snapshotOrDie throws without a snapshot; otherwise the steps are
\* collected and the returned action starts with the first of them. keys
\* lists what has been dispatched to the element.
type(params) ==
  /\ tool.pc = "idle"
  /\ LET entered == [pc |-> "action", name |-> "browser_type", params |-> params, result |-> NULL,
                     steps |-> TypeSteps(params), i |-> 1, j |-> 1, keys |-> <<>>]
     IN tool' = IF snapshot = NULL THEN [entered EXCEPT !.pc = "thrown"]
                ELSE IF params.slowly /\ params.text = <<>> THEN TypeAdvance(entered)
                ELSE entered
  /\ UNCHANGED <<dom, snapshot>>
  /\ UNCHANGED detectVars

\* the step in progress dispatches: locator.fill(text), the next character of
\* locator.pressSequentially(text), or locator.press('Enter'). A failure
\* rejects the chain and no later step is called.
type_step(engineOk) ==
  /\ tool.name = "browser_type" /\ tool.pc = "action"
  /\ LET step == tool.steps[tool.i]
         event == IF step = "fill" THEN [op |-> "fill", text |-> tool.params.text]
                  ELSE IF step = "pressSequentially"
                       THEN [op |-> "key", text |-> <<tool.params.text[tool.j]>>]
                       ELSE [op |-> "press", text |-> <<"Enter">>]
     IN tool' = IF engineOk
                THEN TypeAdvance([tool EXCEPT !.keys = Append(@, event), !.j = @ + 1])
                ELSE [tool EXCEPT !.pc = "thrown"]
  /\ UNCHANGED <<dom, snapshot>>
  /\ UNCHANGED detectVars

TypeParams ==
  [ref : {<<"e", "1">>}, text : {<<>>, <<"a">>, <<"a", "b">>}, submit : BOOLEAN, slowly : BOOLEAN]

\* --------------------------------- the attribute, act and capture tools
InitTools ==
  /\ DetectorAtRest
  /\ dom \in ToolDoms
  /\ snapshot \in {NULL} \cup {CaptureSnapshot(d, FALSE) : d \in ToolDoms}
  /\ tool = IdleTool

NextTools ==
  \/ \E refs \in SeqsUpTo({<<"e", "1">>, <<"1">>, <<"2">>, <<"x", "-", "2">>}, MaxRefs) :
       getBulkAttributes([refs |-> refs])
  \/ \E captured \in BOOLEAN : getBulkAttributes_snapshot(captured)
  \/ \E engineOk \in BOOLEAN : getBulkAttributes_ref(engineOk)
  \/ \E ref \in {Undefined, <<>>, <<"e", "1">>, <<"2">>, <<"x", "-", "2">>},
        selector \in {Undefined, <<>>, <<"#", "a">>, <<"#", "z">>} :
       getElementAttributes([ref |-> ref, selector |-> selector])
  \/ \E engineOk \in BOOLEAN : getElementAttributes_evaluate(engineOk)
  \/ \E name \in ActTools, params \in ActParams : actRejected(name, params)
  \/ \E name \in ActTools, params \in ActParams : act(name, params)
  \/ \E engineOk \in BOOLEAN : actAction(engineOk)
  \/ \E includeHidden \in BOOLEAN,
        maxInteractiveRefs \in {SnapshotMinRefs - 1, SnapshotMinRefs, SnapshotDefaultRefs, SnapshotMaxRefs + 1} :
       snapshotTool([includeHidden |-> includeHidden, maxInteractiveRefs |-> maxInteractiveRefs])
  \/ \E outcome \in {"captured", "none", "throws"} : snapshotTool_capture(outcome)
  \/ \E engineOk \in BOOLEAN : snapshotTool_evaluate(engineOk)
  \/ \E params \in ExpectParams : elementAssertion(params)
  \/ \E outcome \in {"found", "none", "throws"} : elementAssertion_locate(outcome)
  \/ \E passed \in BOOLEAN : elementAssertion_assert(passed)
  \/ \E params \in TypeParams : type(params)
  \/ \E engineOk \in BOOLEAN : type_step(engineOk)
  \/ ToolReturn
  \/ ToolError
  \/ \E d \in ToolDoms : DomChange(d)

SpecTools == InitTools /\ [][NextTools]_vars

\* ------------------------------------- browser_discover_interactive_refs
\* max: z.number().min(10).max(300)
DiscoverMinMax == 10
DiscoverMaxMax == 300

discoverSchema(params) == params.max >= DiscoverMinMax /\ params.max <= DiscoverMaxMax

\* the i-th element of a generated document, of one of the kinds of element
\* with respect to the two ref attributes; its id is i, its ref e<i>
ElementOfKind(kind, i) ==
  LET id == ToChars(i)
      ref == <<"e">> \o ToChars(i)
  IN CASE kind = "aria" -> Element(id, ref, NoAttr, FALSE)
       [] kind = "data" -> Element(id, NoAttr, ref, FALSE)
       [] kind = "both" -> Element(id, ref, <<"d">> \o ToChars(i), FALSE)
       [] kind = "hidden-aria" -> Element(id, ref, NoAttr, TRUE)
       [] kind = "empty-data" -> Element(id, NoAttr, <<>>, FALSE)
       [] kind = "empty-aria-data" -> Element(id, <<>>, ref, FALSE)
       [] OTHER -> Element(id, NoAttr, NoAttr, FALSE)

\* a document of n elements, all with an aria-ref but the one at position p
DiscoverDom(n, p, kind) ==
  [i \in 1..n |-> IF i = p THEN ElementOfKind(kind, i) ELSE ElementOfKind("aria", i)]

DiscoverDoms ==
  {DiscoverDom(n, p, kind) :
     n \in {2, MaxNodes}, p \in {1, 2, MaxNodes},
     kind \in {"aria", "data", "both", "hidden-aria", "empty-data", "empty-aria-data", "plain"}}

\* document.querySelectorAll('[data-ref], [aria-ref]')
querySelectorAll(d) ==
  LET Matches(el) == el.ariaRef # NoAttr \/ el.dataRef # NoAttr
  IN SelectSeq(d, Matches)

\* elements.slice(0, limit)
Slice(elements, limit) == SubSeq(elements, 1, Min(limit, Len(elements)))

RefSource_DataFirst(el) == IF Truthy(el.dataRef) THEN "data-ref" ELSE "aria-ref"

\* refSource: ariaRef ? 'aria-ref' : 'data-ref'
RefSource(el) == IF Truthy(el.ariaRef) THEN "aria-ref" ELSE "data-ref"

\* the attrs object pushed for one element; ref = ariaRef || dataRef
Candidate(el) ==
  [ref |-> IF Truthy(el.ariaRef) THEN el.ariaRef ELSE el.dataRef,
   refSource |-> RefSource(el),
   visible |-> ~el.hidden,
   id |-> el.id]

\* the script of page.evaluate: the candidates of the document
Candidates(d, limit) ==
  LET HasRef(el) == Truthy(el.ariaRef) \/ Truthy(el.dataRef)
      kept == SelectSeq(Slice(querySelectorAll(d), limit), HasRef)
  IN [i \in 1..Len(kept) |-> Candidate(kept[i])]

\* handle is entered with validated params
discoverInteractiveRefs(params) ==
  /\ tool.pc = "idle"
  /\ discoverSchema(params)
  /\ tool' = [pc |-> "snapshot", name |-> "browser_discover_interactive_refs", params |-> params,
              result |-> NULL, seen |-> <<>>]
  /\ UNCHANGED <<dom, snapshot>>
  /\ UNCHANGED detectVars

discoverInteractiveRefs_snapshot_Recapture(captured) ==
  /\ tool.name = "browser_discover_interactive_refs" /\ tool.pc = "snapshot"
  /\ snapshot' = IF captured THEN CaptureSnapshot(dom, tool.params.includeHidden) ELSE snapshot
  /\ tool' = [tool EXCEPT !.pc = "evaluate"]
  /\ UNCHANGED dom
  /\ UNCHANGED detectVars

\* if (!tab.hasSnapshot()) try { await tab.captureSnapshot(...) } catch {}
discoverInteractiveRefs_snapshot(captured) ==
  /\ tool.name = "browser_discover_interactive_refs" /\ tool.pc = "snapshot"
  /\ snapshot' = IF snapshot # NULL THEN snapshot
                 ELSE IF captured THEN CaptureSnapshot(dom, tool.params.includeHidden) ELSE NULL
  /\ tool' = [tool EXCEPT !.pc = "evaluate"]
  /\ UNCHANGED dom
  /\ UNCHANGED detectVars

\* await tab.page.evaluate(...) and the return of { candidates }, or the
\* outer catch
discoverInteractiveRefs_evaluate(engineOk) ==
  /\ tool.name = "browser_discover_interactive_refs" /\ tool.pc = "evaluate"
  /\ tool' = [tool EXCEPT
                !.pc = "done",
                !.seen = dom,
                !.result = IF engineOk
                           THEN [text |-> "payload",
                                 data |-> [candidates |-> Candidates(dom, tool.params.max)]]
                           ELSE [text |-> "Interactive ref discovery failed", data |-> NULL,
                                 candidates |-> <<>>]]
  /\ UNCHANGED <<dom, snapshot>>
  /\ UNCHANGED detectVars

InitDiscover ==
  /\ DetectorAtRest
  /\ dom \in DiscoverDoms
  /\ snapshot = NULL
  /\ tool = IdleTool

NextDiscover ==
  \/ \E includeHidden \in BOOLEAN,
        max \in {DiscoverMinMax - 1, DiscoverMinMax, MaxNodes - 1, MaxNodes} :
       discoverInteractiveRefs([includeHidden |-> includeHidden, max |-> max])
  \/ \E captured \in BOOLEAN : discoverInteractiveRefs_snapshot(captured)
  \/ \E engineOk \in BOOLEAN : discoverInteractiveRefs_evaluate(engineOk)
  \/ ToolReturn

SpecDiscover == InitDiscover /\ [][NextDiscover]_vars

\* ------------------------------------------------ the read-only queries
\* The four query tools on one tab, which may or may not have a snapshot:
\* the two attribute tools, discovery and the detector (one call on tab B,
\* whose page stays as it is).
NextQuery ==
  \/ \E refs \in SeqsUpTo({<<"e", "1">>, <<"2">>}, 1) : getBulkAttributes([refs |-> refs])
  \/ \E captured \in BOOLEAN : getBulkAttributes_snapshot(captured)
  \/ \E engineOk \in BOOLEAN : getBulkAttributes_ref(engineOk)
  \/ \E ref \in {Undefined, <<"e", "1">>}, selector \in {Undefined, <<"#", "a">>} :
       getElementAttributes([ref |-> ref, selector |-> selector])
  \/ \E engineOk \in BOOLEAN : getElementAttributes_evaluate(engineOk)
  \/ \E includeHidden \in BOOLEAN :
       discoverInteractiveRefs([includeHidden |-> includeHidden, max |-> DiscoverMinMax])
  \/ \E captured \in BOOLEAN : discoverInteractiveRefs_snapshot(captured)
  \/ \E engineOk \in BOOLEAN : discoverInteractiveRefs_evaluate(engineOk)
  \/ \E seed \in BOOLEAN : Start("c1", "tabB", [DefaultParams EXCEPT !.seed = seed])
  \/ Collect("c1")
  \/ CollectFail("c1")
  \/ Finish("c1")
  \/ Return("c1")
  \/ ToolReturn
  \/ \E d \in ToolDoms : DomChange(d)

SpecQuery == InitTools /\ [][NextQuery]_vars

\* ------------------------------------------------- the payload envelope
\* version = 1
PayloadVersion == 1

\* buildPayload(context, tool, data, target, version): doc is the document
\* of the current tab, target is NULL when the caller passes none
buildPayload(doc, name, data, target) ==
  IF target # NULL
  THEN [tool |-> name, version |-> PayloadVersion, timestamp |-> "now",
        page |-> [url |-> doc.url, title |-> doc.title], target |-> target, data |-> data]
  ELSE [tool |-> name, version |-> PayloadVersion, timestamp |-> "now",
        page |-> [url |-> doc.url, title |-> doc.title], data |-> data]

\* ------------------------------------- the detector's parameter schema
\* threshold: z.number().optional().default(0.30), seed: z.boolean()
detectPageChangeSchema(params) == params.threshold \in Int /\ params.seed \in BOOLEAN

\* the request parses against the schema and handle is entered
StartValidated(c, t, params) == detectPageChangeSchema(params) /\ Start(c, t, params)

InitSchema == InitPair(TabDocs("tabA"))

\* thresholds in hundredths: below 0, the ends of [0, 1], the default, above 1
NextSchema ==
  \/ \E seed \in BOOLEAN, threshold \in {0 - 10, 0, DefaultThreshold, 100, 150} :
       StartValidated("c1", "tabA", [seed |-> seed, threshold |-> threshold, weights |-> NULL])
  \/ Collect("c1")
  \/ CollectFail("c1")
  \/ Finish("c1")
  \/ Return("c1")

SpecSchema == InitSchema /\ [][NextSchema]_vars

\* ------------------------------------------- the score in IEEE 754 doubles
\* A JavaScript number that is not negative, as the double it is: zero, or
\* m * 2^e with m a 53-bit integer whose top bit is 1, written as the sequence
\* of its bits from the lowest to the highest (subnormals and infinities do
\* not occur in the scores).
Zero == [m |-> <<>>, e |-> 0]

RECURSIVE CarryBits(_, _)
\* the lowest 8 * k bits of the number whose binary columns hold the sums
\* cols (not yet reduced mod 2), and the carry out of them; eight columns are
\* reduced at a time
CarryBits(cols, k) ==
  IF k = 0 THEN [bits |-> <<>>, carry |-> 0]
  ELSE CHOOSE upTo \in
         {LET Col(j) == IF 8 * (k - 1) + j <= Len(cols) THEN cols[8 * (k - 1) + j] ELSE 0
              sum == lower.carry + Col(1) + 2 * Col(2) + 4 * Col(3) + 8 * Col(4)
                       + 16 * Col(5) + 32 * Col(6) + 64 * Col(7) + 128 * Col(8)
          IN [bits |-> lower.bits \o [j \in 1..8 |-> (sum \div 2^(j - 1)) % 2],
              carry |-> sum \div 256] : lower \in {CarryBits(cols, k - 1)}} : TRUE

\* the bits of that number; the carry out of the last column takes at most 6
\* more columns (a column sum is at most 53)
BitsOfColumns(cols) == CarryBits(cols, (Len(cols) + 6) \div 8 + 1).bits

\* round to nearest, ties to even: the double nearest to bits * 2^e
RoundToDouble(bits, e) ==
  LET ones == {i \in 1..Len(bits) : bits[i] = 1}
      L == IF ones = {} THEN 0 ELSE CHOOSE i \in ones : \A j \in ones : j <= i
      s == L - 53
      kept == [i \in 1..53 |-> bits[i + s]]
      up == bits[s] = 1 /\ (kept[1] = 1 \/ \E i \in 1..(s - 1) : bits[i] = 1)
  IN IF L = 0 THEN Zero
     ELSE IF L <= 53
     THEN [m |-> [i \in 1..53 |-> IF i <= 53 - L THEN 0 ELSE bits[i - (53 - L)]], e |-> e + s]
     ELSE IF ~up THEN [m |-> kept, e |-> e + s]
     ELSE IF \A i \in 1..53 : kept[i] = 1
     THEN [m |-> [i \in 1..53 |-> IF i = 53 THEN 1 ELSE 0], e |-> e + s + 1]
     ELSE [m |-> SubSeq(BitsOfColumns([i \in 1..53 |-> kept[i] + (IF i = 1 THEN 1 ELSE 0)]), 1, 53),
           e |-> e + s]

RECURSIVE LongDivision(_, _, _)
\* long division by d of the first i digits of the dividend (digits of base
\* 256 from the highest): the quotient bits from the lowest, and the remainder
LongDivision(dividend, d, i) ==
  IF i = 0 THEN [q |-> <<>>, r |-> 0]
  ELSE CHOOSE upTo \in
         {LET t == 256 * before.r + dividend[i]
          IN [q |-> [j \in 1..8 |-> ((t \div d) \div 2^(j - 1)) % 2] \o before.q,
              r |-> t % d] : before \in {LongDivision(dividend, d, i - 1)}} : TRUE

\* the double nearest to n / d (0 <= n < 2^31, 0 < d < 2^23): the value of a
\* decimal literal such as 0.15 = 15 / 100, and the result of dividing two
\* counts. The dividend is n with 80 binary places.
DoubleOf(n, d) ==
  LET dividend == [i \in 1..14 |-> IF i <= 4 THEN (n \div 256^(4 - i)) % 256 ELSE 0]
      division == LongDivision(dividend, d, 14)
      \* below the quotient, one bit that says whether a remainder is left
      sticky == IF division.r > 0 THEN 1 ELSE 0
  IN RoundToDouble(<<sticky>> \o division.q, 0 - 81)

\* x + y
DoubleAdd(x, y) ==
  IF x = Zero THEN y
  ELSE IF y = Zero THEN x
  ELSE LET e == Min(x.e, y.e)
           Bit(v, k) == IF k > v.e - e /\ k <= v.e - e + 53 THEN v.m[k - (v.e - e)] ELSE 0
           cols == [k \in 1..(Max(x.e, y.e) - e + 53) |-> Bit(x, k) + Bit(y, k)]
       IN RoundToDouble(BitsOfColumns(cols), e)

\* x * y
DoubleMul(x, y) ==
  IF x = Zero \/ y = Zero THEN Zero
  ELSE LET cols == [k \in 1..105 |->
                      Cardinality({i \in 1..53 : /\ k + 1 - i \in 1..53
                                                 /\ x.m[i] = 1 /\ y.m[k + 1 - i] = 1})]
       IN RoundToDouble(BitsOfColumns(cols), x.e + y.e)

\* DEFAULT_WEIGHTS as the doubles its literals denote
DEFAULT_WEIGHTS64 ==
  [url |-> DoubleOf(40, 100), title |-> DoubleOf(15, 100), elem |-> DoubleOf(15, 100),
   domStructure |-> DoubleOf(20, 100), formElements |-> DoubleOf(5, 100),
   linkElements |-> DoubleOf(5, 100)]

\* calculateWeightedScore as JavaScript evaluates it: the six products, added
\* from left to right, every operation rounded
calculateWeightedScore64(components, weights) ==
  DoubleAdd(
    DoubleAdd(
      DoubleAdd(
        DoubleAdd(
          DoubleAdd(DoubleMul(weights.url, components.url),
                    DoubleMul(weights.title, components.title)),
          DoubleMul(weights.elem, components.elem)),
        DoubleMul(weights.domStructure, components.domStructure)),
      DoubleMul(weights.formElements, components.formElements)),
    DoubleMul(weights.linkElements, components.linkElements))

\* The pure function calculateWeightedScore on the component scores a detect
\* can compute: 0.0 and 1.0 for the URL, the title and the structural hash,
\* and for the three counts 1.0 (previous count 0, or a delta of at least the
\* previous count) and the quotients |current - previous| / previous.
InitDouble ==
  LET CountScores(max) ==
        {DoubleOf(1, 1)} \cup
        {IF Abs(cur - prev) >= prev THEN DoubleOf(1, 1) ELSE DoubleOf(Abs(cur - prev), prev) :
           prev \in 1..max, cur \in 0..max}
      Binary == {Zero, DoubleOf(1, 1)}
  IN /\ DetectorAtRest
     /\ dom = <<>>
     /\ snapshot = NULL
     /\ tool \in [pc : {"idle"}, name : {"calculateWeightedScore"}, result : {NULL},
                  params : [url : Binary, title : Binary, elem : CountScores(MaxElem),
                            domStructure : Binary, formElements : CountScores(MaxForm),
                            linkElements : CountScores(MaxLink)]]

\* const score = calculateWeightedScore(changeComponents, weights), with the
\* default weights
NextDouble ==
  /\ tool.pc = "idle" /\ tool.name = "calculateWeightedScore"
  /\ tool' = [tool EXCEPT !.pc = "done",
                          !.result = calculateWeightedScore64(tool.params, DEFAULT_WEIGHTS64)]
  /\ UNCHANGED <<dom, snapshot>>
  /\ UNCHANGED detectVars

SpecDouble == InitDouble /\ [][NextDouble]_vars

\* ----------------------------------------------------------------- claims
\* the step in which call c runs the continuation after its await
FinishStep(c) == calls[c].pc = "collected" /\ calls'[c].pc = "done"

TabStates(t) == {collectPageState(doc) : doc \in TabDocs(t)}

\* C1: after every call that completes, the tab's fingerprint is the PageState
\* that call collected, and a call that takes the detect branch is scored
\* against the PageState collected by the call that completed last on the tab.
C1_FingerprintIsLastCollected ==
  /\ [](\A t \in Tabs : SessionGet(sessionStates, t) = lastCollected[t])
  /\ [][\A c \in Calls : FinishStep(c) =>
          /\ SessionGet(sessionStates', calls[c].tab) = calls[c].current
          /\ calls'[c].result.change_type # "seed" =>
               /\ lastCollected[calls[c].tab] # NULL
               /\ calls'[c].result.previous = Summary(lastCollected[calls[c].tab])
               /\ calls'[c].result.components =
                    calculateNumericalChanges(lastCollected[calls[c].tab], calls[c].current)]_vars

\* two detects of tab A are complete: c1 compared x with y and was reported not
\* significant, c2 compared y (the state c1 collected) with x
C1_Witness ==
  /\ calls["c1"].pc = "done" /\ calls["c2"].pc = "done"
  /\ calls["c1"].tab = "tabA" /\ calls["c2"].tab = "tabA"
  /\ calls["c1"].result.change_type # "seed" /\ calls["c2"].result.change_type # "seed"
  /\ ~calls["c1"].result.significant_change
  /\ calls["c1"].result.previous.url = UrlAX /\ calls["c1"].current.url = UrlAY
  /\ calls["c2"].result.previous.url = UrlAY /\ calls["c2"].current.url = UrlAX
  /\ sessionStates["tabA"] = calls["c2"].current

\* C2: a call with seed=true returns significant_change=false.
C2_SeedNeverSignificant ==
  \A c \in Calls :
    calls[c].pc = "done" /\ calls[c].params.seed => ~calls[c].result.significant_change

\* two seed calls of one tab are complete, one with threshold 0 and one with a
\* weights override; the later of the two found a fingerprint stored
C2_Witness ==
  /\ calls["c1"].pc = "done" /\ calls["c2"].pc = "done"
  /\ calls["c1"].tab = calls["c2"].tab
  /\ calls["c1"].params.seed /\ calls["c2"].params.seed
  /\ calls["c1"].params.threshold = 0 /\ calls["c2"].params.weights # NULL
  /\ calls["c2"].params.threshold = 0
  /\ ~calls["c1"].result.significant_change /\ ~calls["c2"].result.significant_change

\* C3: a detect (seed=false) that finds no fingerprint for its tab reports
\* significant_change=false and stores the state it collected.
C3_FirstDetectIsSeed ==
  [][\A c \in Calls :
       (/\ FinishStep(c)
        /\ ~calls[c].params.seed
        /\ SessionGet(sessionStates, calls[c].tab) = NULL)
       => /\ ~calls'[c].result.significant_change
          /\ SessionGet(sessionStates', calls[c].tab) = calls[c].current]_vars

\* c1 was a first detect with threshold 0 and was answered as a seed; c2, the
\* next detect of the tab, was compared against what c1 collected
C3_Witness ==
  /\ calls["c1"].pc = "done" /\ calls["c2"].pc = "done"
  /\ calls["c1"].tab = "tabB" /\ calls["c2"].tab = "tabB"
  /\ ~calls["c1"].params.seed /\ ~calls["c2"].params.seed
  /\ calls["c1"].params.threshold = 0
  /\ calls["c1"].result.change_type = "seed" /\ ~calls["c1"].result.significant_change
  /\ calls["c2"].result.change_type # "seed"
  /\ calls["c2"].result.previous = Summary(calls["c1"].current)
  /\ calls["c2"].current # calls["c1"].current

\* C9: a call on one tab leaves the fingerprint of every other tab as it was,
\* and its result is the one computed from the states collected on its own tab.
C9_TabsIndependent ==
  [][\A c \in Calls : FinishStep(c) =>
       /\ \A u \in Tabs \ {calls[c].tab} :
            SessionGet(sessionStates', u) = SessionGet(sessionStates, u)
       /\ calls'[c].result =
            HandleResult(lastCollected[calls[c].tab], calls[c].current, calls[c].params)]_vars

\* a detect of tab B completed between the collection and the completion of a
\* call on tab A, both tabs holding a fingerprint
C9_Witness ==
  /\ calls["c1"].pc = "collected" /\ calls["c1"].tab = "tabA"
  /\ calls["c2"].pc = "done" /\ calls["c2"].tab = "tabB"
  /\ calls["c2"].result.change_type # "seed"
  /\ DOMAIN sessionStates = Tabs
  /\ sessionStates["tabA"] # sessionStates["tabB"]

\* C10: a tab has no fingerprint or one PageState that a single collection on
\* that tab produced.
C10_FingerprintIsOneCollection ==
  /\ DOMAIN sessionStates \subseteq Tabs
  /\ \A t \in DOMAIN sessionStates : sessionStates[t] \in TabStates(t)

\* two calls of tab A overlap: both collected, different states, c1 completed
\* first and c2 is still suspended
C10_Witness ==
  /\ calls["c1"].pc = "done" /\ calls["c2"].pc = "collected"
  /\ calls["c1"].tab = "tabA" /\ calls["c2"].tab = "tabA"
  /\ calls["c1"].current # calls["c2"].current
  /\ calls["c1"].result.change_type # "seed"
  /\ sessionStates["tabA"] = calls["c1"].current

\* a call that took the detect branch and has its result
Detected(c) == calls[c].pc = "done" /\ calls[c].result.change_type # "seed"

Hostname(url) == ParseUrl(url).hostname

\* C4: a detect is significant exactly when its score is at least the threshold.
C4_SignificantIffAtLeastThreshold ==
  \A c \in Calls : Detected(c) =>
    (calls[c].result.significant_change
       <=> calls[c].result.score >= calls[c].params.threshold * Scale)

\* a detect whose score is exactly the threshold (0.30: title and element
\* count changed completely, nothing else) and which is significant
C4_Witness ==
  /\ Detected("c1")
  /\ calls["c1"].params = DefaultParams
  /\ calls["c1"].result.score = DefaultThreshold * Scale
  /\ calls["c1"].result.components.title = Scale
  /\ calls["c1"].result.components.elem = Scale
  /\ calls["c1"].result.significant_change

\* C5: change_type follows the priority order navigation (URL component > 0.7),
\* structural (structural-hash or form component > 0.5), content (title
\* changed or element-count component > 0.3), none.
C5_ClassificationPriority ==
  \A c \in Calls : Detected(c) =>
    LET k == calls[c].result.components
    IN calls[c].result.change_type =
         IF 10 * k.url > 7 * Scale THEN "navigation"
         ELSE IF 10 * k.domStructure > 5 * Scale \/ 10 * k.formElements > 5 * Scale
         THEN "structural"
         ELSE IF calls[c].previous.title # calls[c].current.title \/ 10 * k.elem > 3 * Scale
         THEN "content"
         ELSE "none"

\* every rule matches and the first one wins, under a weights override that
\* gives the URL component no weight
C5_Witness ==
  /\ Detected("c1")
  /\ calls["c1"].params.weights # NULL
  /\ calls["c1"].result.components.url = Scale
  /\ calls["c1"].result.components.domStructure = Scale
  /\ calls["c1"].result.components.formElements = Scale
  /\ calls["c1"].result.components.elem = Scale
  /\ calls["c1"].previous.title # calls["c1"].current.title
  /\ MergeWeights(calls["c1"].params.weights).url = 0
  /\ calls["c1"].result.change_type = "navigation"

\* C6: the URL component is 0.0 for identical URL strings and 1.0 for URLs of
\* different hostnames.
C6_UrlScoreBoundary ==
  \A c \in Calls : Detected(c) =>
    /\ calls[c].previous.url = calls[c].current.url => calls[c].result.components.url = 0
    /\ Hostname(calls[c].previous.url) # Hostname(calls[c].current.url)
         => calls[c].result.components.url = Scale

\* the same path, query and fragment on two hostnames
C6_Witness ==
  /\ Detected("c1")
  /\ calls["c1"].previous.url = Href("a.test", <<"x", "y">>, FALSE, <<"?q">>, <<"#h">>)
  /\ calls["c1"].current.url = Href("b.test", <<"x", "y">>, FALSE, <<"?q">>, <<"#h">>)
  /\ calls["c1"].result.components.url = Scale

\* Scenario A: the fingerprint is of https://a.test/x, the page is the same
\* document at https://a.test/y, the request has the default threshold and weights
ScenarioA(c) ==
  /\ Detected(c)
  /\ calls[c].params = DefaultParams
  /\ calls[c].previous.url = UrlAX
  /\ calls[c].current.url = UrlAY
  /\ calls[c].previous = [calls[c].current EXCEPT !.url = UrlAX]

\* C7 as stated: Scenario A yields URL component > 0, title component 0, a
\* score below 0.30, significant_change=false and change_type none or content.
C7_ScenarioA_AsStated ==
  \A c \in Calls : ScenarioA(c) =>
    /\ calls[c].result.components.url > 0
    /\ calls[c].result.components.title = 0
    /\ calls[c].result.score < DefaultThreshold * Scale
    /\ ~calls[c].result.significant_change
    /\ calls[c].result.change_type \in {"none", "content"}

\* C7 amended: Scenario A yields URL component 1.0, title component 0, score
\* 0.40 (0.55 for a document without elements), significant_change=true and
\* change_type navigation.
C7_ScenarioA ==
  \A c \in Calls : ScenarioA(c) =>
    /\ calls[c].result.components.url = Scale
    /\ calls[c].result.components.title = 0
    /\ calls[c].result.score =
         (IF calls[c].previous.elemCount = 0 THEN 55 ELSE 40) * Scale
    /\ calls[c].result.significant_change
    /\ calls[c].result.change_type = "navigation"

C7_Witness == ScenarioA("c1") /\ calls["c1"].current.elemCount > 0

\* C8: with the default threshold and weights, a detect across two hostnames
\* has URL component 1.0, change_type navigation and significant_change=true.
C8_ScenarioB ==
  \A c \in Calls :
    (/\ Detected(c)
     /\ calls[c].params = DefaultParams
     /\ Hostname(calls[c].previous.url) # Hostname(calls[c].current.url))
    => /\ calls[c].result.components.url = Scale
       /\ calls[c].result.change_type = "navigation"
       /\ calls[c].result.significant_change

\* https://a.test/ to https://b.test/ with every other component at its
\* maximum, the structural and content rules matching as well
C8_Witness ==
  /\ Detected("c1")
  /\ calls["c1"].params = DefaultParams
  /\ calls["c1"].previous.url = UrlARoot
  /\ calls["c1"].current.url = UrlBRoot
  /\ \A k \in DOMAIN DEFAULT_WEIGHTS : calls["c1"].result.components[k] = Scale
  /\ calls["c1"].result.change_type = "navigation"

\* the bulk call has returned the per-ref mapping
BulkReturned ==
  tool.name = "browser_get_bulk_attributes" /\ tool.pc = "done" /\ tool.result.data # NULL

\* Object.keys(obj)
ObjectKeys(obj) == [i \in 1..Len(obj) |-> obj[i].key]

\* obj[key]
ObjectGet(obj, key) == obj[CHOOSE i \in 1..Len(obj) : obj[i].key = key].value

\* C11: the mapping a bulk extraction returns has exactly one entry per
\* requested ref, in request order: the keys of the mapping, in the order in
\* which they are emitted, are the request list (repeated refs included).
C11_OneEntryPerRefInOrder ==
  BulkReturned => ObjectKeys(tool.result.data.attributes) = tool.params.refs

\* the index of the last occurrence of refs[i] in the request list
LastOccurrence(refs, i) ==
  CHOOSE j \in i..Len(refs) : refs[j] = refs[i] /\ \A k \in (j + 1)..Len(refs) : refs[k] # refs[i]

\* C12: once the loop of a bulk extraction has started, a ref that fails gets
\* an error entry and nothing else changes: the call returns the mapping and
\* not a batch-level error, every requested ref has been processed, a ref
\* whose element was found has its payload and a ref whose resolution or
\* evaluation failed has its error entry.
C12_FailureIsolatedPerRef ==
  (tool.name = "browser_get_bulk_attributes" /\ tool.pc = "done" /\ tool.trace # <<>>) =>
    LET refs == tool.params.refs
        trace == tool.trace
    IN /\ tool.result.data # NULL
       /\ [i \in 1..Len(trace) |-> trace[i].ref] = refs
       /\ \A i \in 1..Len(refs) :
            LET found == trace[LastOccurrence(refs, i)].el
            IN /\ HasKey(tool.result.data.attributes, refs[i])
               /\ ObjectGet(tool.result.data.attributes, refs[i]) =
                    IF found = NULL THEN BulkErrorEntry(refs[i]) ELSE BulkPayload(found)

\* a bulk call in which a ref failed and a later, different ref was extracted
C12_Witness ==
  /\ BulkReturned
  /\ \E i, j \in 1..Len(tool.trace) :
       /\ i < j
       /\ tool.trace[i].el = NULL
       /\ tool.trace[j].el # NULL
       /\ tool.trace[i].ref # tool.trace[j].ref

\* some element of d carries ref as its data-ref or as its aria-ref
RefMatches(d, ref) == \E i \in 1..Len(d) : d[i].dataRef = ref \/ d[i].ariaRef = ref

AttrDone == tool.name = "browser_get_element_attributes" /\ tool.pc = "done"

Present(str) == str # Undefined /\ str # <<>>

\* C14: an act tool accepts a request only when exactly one of ref and
\* selector is present: a request that reaches the handler (a locator is
\* built, an action may be dispatched) has exactly one of them.
C14_ExactlyOneOfRefAndSelector ==
  (tool.name \in ActTools /\ tool.pc # "rejected") =>
    (Present(tool.params.ref) /\ ~Present(tool.params.selector))
      \/ (~Present(tool.params.ref) /\ Present(tool.params.selector))

\* C15: the ref path is taken exactly when a non-empty ref is supplied (with
\* or without a selector), the selector path exactly when no non-empty ref but
\* a non-empty selector is supplied; a successful result carries the
\* ref-direct tag exactly when the ref path was taken and the selector-legacy
\* tag exactly when the selector path was taken; with neither, the result is
\* the error 'Either ref or selector parameter is required'.
C15_RefPathHasPriority ==
  AttrDone =>
    LET params == tool.params
    IN /\ tool.path = "ref" <=> Present(params.ref)
       /\ tool.path = "selector" <=> (~Present(params.ref) /\ Present(params.selector))
       /\ tool.result.data # NULL =>
            /\ tool.path = "ref" <=>
                 tool.result.data.attributes.extraction_method = "mcp-aria-ref-direct"
            /\ tool.path = "selector" <=>
                 tool.result.data.attributes.extraction_method = "css-selector-legacy"
       /\ (~Present(params.ref) /\ ~Present(params.selector)) =>
            tool.result = AttrFailed("Either ref or selector parameter is required")

\* a ref and a selector that name different elements: the ref's is returned
C15_Witness ==
  /\ AttrDone
  /\ tool.params.ref = <<"2">> /\ tool.params.selector = <<"#", "a">>
  /\ tool.result.data # NULL
  /\ tool.result.data.attributes.id = "b"

\* discover-refs has returned its list of candidates
DiscoverReturned ==
  tool.name = "browser_discover_interactive_refs" /\ tool.pc = "done" /\ tool.result.data # NULL

\* the elements of d that carry a non-empty ref, in document order
RefBearing(d) ==
  LET Bears(el) == Truthy(el.ariaRef) \/ Truthy(el.dataRef)
  IN SelectSeq(d, Bears)

\* C16: discover-refs returns the first max ref-bearing elements of the
\* document in document order, all of them when there are fewer than max.
C16_FirstMaxRefBearing ==
  DiscoverReturned =>
    LET expected == Slice(RefBearing(tool.seen), tool.params.max)
        candidates == tool.result.data.candidates
    IN /\ Len(candidates) <= tool.params.max
       /\ [i \in 1..Len(candidates) |-> candidates[i].id] =
            [i \in 1..Len(expected) |-> expected[i].id]

\* the element of d with the given id
ElementById(d, id) == d[CHOOSE i \in 1..Len(d) : d[i].id = id]

\* C17: every candidate has a non-empty ref; its refSource is "aria-ref" and
\* its ref the aria-ref value when the element has a non-empty aria-ref,
\* otherwise "data-ref" and the data-ref value; within the first max elements
\* that carry one of the attributes, every element with a non-empty ref is
\* reported, whichever attribute carries it and hidden or not.
C17_RefSourceNamesTheAttribute ==
  DiscoverReturned =>
    LET candidates == tool.result.data.candidates
        window == Slice(querySelectorAll(tool.seen), tool.params.max)
    IN /\ \A i \in 1..Len(candidates) :
            LET c == candidates[i]
                el == ElementById(tool.seen, c.id)
            IN /\ c.ref # <<>> /\ c.ref # NoAttr
               /\ IF el.ariaRef # NoAttr /\ el.ariaRef # <<>>
                  THEN c.refSource = "aria-ref" /\ c.ref = el.ariaRef
                  ELSE c.refSource = "data-ref" /\ c.ref = el.dataRef
       /\ \A k \in 1..Len(window) :
            (Truthy(window[k].ariaRef) \/ Truthy(window[k].dataRef)) =>
               \E i \in 1..Len(candidates) : candidates[i].id = window[k].id

\* a truncated result that reports an element whose aria-ref is empty by its
\* data-ref
C17_Witness ==
  /\ DiscoverReturned
  /\ \E i \in 1..Len(tool.result.data.candidates) :
       LET el == ElementById(tool.seen, tool.result.data.candidates[i].id)
       IN /\ el.ariaRef = <<>>
          /\ tool.result.data.candidates[i].refSource = "data-ref"
  /\ Len(tool.seen) > tool.params.max

\* C18: the capture tool never returns a success result when the tab has no
\* snapshot after the capture step.
C18_NoSuccessWithoutSnapshot ==
  (tool.name = "browser_snapshot" /\ tool.pc = "done") => tool.after # NULL

\* the target of a get-element-attributes request
AttrTarget(params) == [ref |-> params.ref, selector |-> params.selector]

\* C19: the data of a tool result is the uniform envelope: it has the fields
\* tool, version, timestamp, page and data, and target for an operation that
\* addressed an element (here: get-element-attributes).
C19_UniformEnvelope ==
  (AttrDone /\ tool.result.data # NULL) =>
    DOMAIN tool.result.data =
      DOMAIN buildPayload(page["tabA"], tool.name, tool.result.data, AttrTarget(tool.params))

\* C20: a detect-page-change request whose threshold lies outside [0, 1] is
\* rejected before execution: no call with such a threshold collects the
\* page state or completes (and so none replaces the fingerprint).
C20_ThresholdBoundsEnforced ==
  \A c \in Calls :
    calls[c].pc \in {"collecting", "collected", "done"} =>
      (calls[c].params.threshold >= 0 /\ calls[c].params.threshold <= 100)

\* the set of non-empty path segments of a URL
PathSegmentSet(url) == Range(PathParts(ParseUrl(url).pathname))

\* the Jaccard similarity of two sets, times Scale; two empty sets are equal
Jaccard(A, B) ==
  IF A \cup B = {} THEN Scale ELSE (Cardinality(A \cap B) * Scale) \div Cardinality(A \cup B)

\* C23: for two different URL strings of one hostname the URL component is
\* min(1, (1 - J) + 0.3*[query differs] + 0.1*[fragment differs]), J being the
\* Jaccard similarity of the two sets of non-empty path segments; this
\* includes two root paths that differ only in query or fragment.
C23_SameHostUrlFormula ==
  \A c \in Calls :
    (/\ Detected(c)
     /\ calls[c].previous.url # calls[c].current.url
     /\ Hostname(calls[c].previous.url) = Hostname(calls[c].current.url))
    => LET prev == ParseUrl(calls[c].previous.url)
           curr == ParseUrl(calls[c].current.url)
           J == Jaccard(PathSegmentSet(calls[c].previous.url), PathSegmentSet(calls[c].current.url))
       IN calls[c].result.components.url =
            Min(Scale, (Scale - J)
                         + (IF prev.search # curr.search THEN (3 * Scale) \div 10 ELSE 0)
                         + (IF prev.hash # curr.hash THEN Scale \div 10 ELSE 0))

\* C24: the element-count score is min(1, |current - previous| / previous)
\* and 1.0 when the previous count is 0; the form and link scores are the
\* relative delta clamped to [0,1], 1.0 when the previous count is 0 and the
\* current one positive, 0.0 when both are 0.
C24_CountScoreConventions ==
  \A c \in Calls : Detected(c) =>
    LET p == calls[c].previous
        q == calls[c].current
        k == calls[c].result.components
    IN /\ p.elemCount = 0 => k.elem = Scale
       /\ p.elemCount > 0 =>
            k.elem * p.elemCount = Min(Scale * p.elemCount, Abs(q.elemCount - p.elemCount) * Scale)
       /\ (p.formElementCount = 0 /\ q.formElementCount = 0) => k.formElements = 0
       /\ (p.formElementCount = 0 /\ q.formElementCount > 0) => k.formElements = Scale
       /\ p.formElementCount > 0 =>
            k.formElements * p.formElementCount =
              Min(Scale * p.formElementCount,
                  Abs(q.formElementCount - p.formElementCount) * Scale)
       /\ (p.linkElementCount = 0 /\ q.linkElementCount = 0) => k.linkElements = 0
       /\ (p.linkElementCount = 0 /\ q.linkElementCount > 0) => k.linkElements = Scale
       /\ p.linkElementCount > 0 =>
            k.linkElements * p.linkElementCount =
              Min(Scale * p.linkElementCount,
                  Abs(q.linkElementCount - p.linkElementCount) * Scale)

\* the element count tripled (the delta of 2.0 is clamped), the forms went
\* from zero to nonzero and there was no link before or after
C24_Witness ==
  /\ Detected("c1")
  /\ calls["c1"].previous.elemCount = 1 /\ calls["c1"].current.elemCount = 3
  /\ calls["c1"].result.components.elem = Scale
  /\ calls["c1"].previous.formElementCount = 0 /\ calls["c1"].current.formElementCount > 0
  /\ calls["c1"].result.components.formElements = Scale
  /\ calls["c1"].previous.linkElementCount = 0 /\ calls["c1"].current.linkElementCount = 0
  /\ calls["c1"].result.components.linkElements = 0

\* the weight of component k in a request: the value the request names,
\* otherwise the default given (in hundredths)
WeightOf(params, k, default) ==
  IF params.weights # NULL /\ k \in DOMAIN params.weights THEN params.weights[k] ELSE default

\* C25: the aggregate score of a detect is the sum over the six components of
\* weight times component score, each weight being the request's value when
\* the request names the component and otherwise the default (URL 0.40, title
\* 0.15, element count 0.15, structural hash 0.20, form 0.05, link 0.05).
C25_WeightedSumWithDefaults ==
  \A c \in Calls : Detected(c) =>
    LET k == calls[c].result.components
        params == calls[c].params
    IN calls[c].result.score =
         WeightOf(params, "url", 40) * k.url
         + WeightOf(params, "title", 15) * k.title
         + WeightOf(params, "elem", 15) * k.elem
         + WeightOf(params, "domStructure", 20) * k.domStructure
         + WeightOf(params, "formElements", 5) * k.formElements
         + WeightOf(params, "linkElements", 5) * k.linkElements

\* a request that overrides the URL and title weights only: the URL change
\* counts for nothing and the other four components count with their defaults
C25_Witness ==
  /\ Detected("c1")
  /\ calls["c1"].params.weights # NULL
  /\ DOMAIN calls["c1"].params.weights = {"url", "title"}
  /\ \A k \in DOMAIN DEFAULT_WEIGHTS \ {"title"} : calls["c1"].result.components[k] = Scale
  /\ calls["c1"].result.components.title = 0
  /\ calls["c1"].result.score = 45 * Scale

\* x <= y for two doubles that are not negative
DoubleLe(x, y) ==
  LET differ == {i \in 1..53 : x.m[i] # y.m[i]}
  IN \/ x = Zero
     \/ /\ y # Zero
        /\ \/ x.e < y.e
           \/ /\ x.e = y.e
              /\ \/ differ = {}
                 \/ x.m[CHOOSE i \in differ : \A j \in differ : j <= i] = 0

\* C26: each of the six component scores of a detect lies in [0,1], and under
\* the default weights the aggregate score lies in [0,1] as well.
C26_ScoresInUnitInterval ==
  (tool.name = "calculateWeightedScore" /\ tool.pc = "done") =>
    /\ \A k \in DOMAIN tool.params : DoubleLe(tool.params[k], DoubleOf(1, 1))
    /\ DoubleLe(tool.result, DoubleOf(1, 1))

\* C29: a seed or detect call whose page-state collection fails leaves every
\* stored fingerprint as it was: neither the failure nor the delivery of the
\* error changes it, so the fingerprint stays the state collected by the call
\* that completed last on the tab, and the next call that completes on the
\* tab is compared against it.
C29_FailedCollectionKeepsFingerprint ==
  /\ [][\A c \in Calls :
          (\/ calls[c].pc = "collecting" /\ calls'[c].pc = "failed"
           \/ calls[c].pc = "failed" /\ calls'[c].pc = "idle")
            => sessionStates' = sessionStates]_vars
  /\ [][\A c \in Calls :
          (FinishStep(c) /\ \E f \in Calls : calls[f].pc = "failed" /\ calls[f].tab = calls[c].tab)
            => calls'[c].previous = lastCollected[calls[c].tab]]_vars

\* a seed call has failed on tab A, which holds a fingerprint different from
\* the state of the page, while a detect of the same tab has collected and is
\* about to be compared
C29_Witness ==
  /\ calls["c1"].pc = "failed" /\ calls["c1"].tab = "tabA" /\ calls["c1"].params.seed
  /\ "tabA" \in DOMAIN sessionStates
  /\ sessionStates["tabA"] # collectPageState(page["tabA"])
  /\ calls["c2"].pc = "collected" /\ calls["c2"].tab = "tabA" /\ ~calls["c2"].params.seed

\* C21: a failure raised by a browser-engine call during a handler is caught
\* and returned as a textual error payload, never propagated to the caller of
\* the handler. For detect-page-change: no call is ever left by the
\* exception of its collection (pc "failed" is the handler left by the
\* rejected await of collectPageState, with no result).
C21_EngineFailureIsCaught ==
  \A c \in Calls : calls[c].pc # "failed"

\* C27: in click, hover, fill, check and select a non-empty selector, alone or
\* together with a ref, decides the element: the handler builds the locator
\* from the selector and returns its action whether or not the tab has a
\* snapshot, and the action acts on the element the selector finds. The
\* handler throws for a missing snapshot only when a ref comes without a
\* selector.
C27_SelectorBeforeRef ==
  [][/\ (tool.pc = "idle" /\ tool'.name \in ActTools /\ tool'.pc \in {"action", "thrown"}) =>
          /\ Truthy(tool'.params.selector) =>
               /\ tool'.pc = "action"
               /\ tool'.locator = [by |-> "selector", value |-> tool'.params.selector]
          /\ tool'.pc = "thrown" =>
               /\ Truthy(tool'.params.ref)
               /\ ~Truthy(tool'.params.selector)
               /\ snapshot = NULL
          /\ (Truthy(tool'.params.ref) /\ ~Truthy(tool'.params.selector) /\ snapshot = NULL) =>
               tool'.pc = "thrown"
     /\ (tool.name \in ActTools /\ tool.pc = "action" /\ tool'.pc = "done"
           /\ Truthy(tool.params.selector)) =>
          tool'.result.acted = tool.params.selector[2]]_vars

\* a selector and a ref arrive together on a tab with no snapshot and the
\* action has been dispatched
C27_Witness ==
  /\ tool.name \in ActTools /\ tool.pc = "done"
  /\ Truthy(tool.params.selector) /\ Truthy(tool.params.ref)
  /\ snapshot = NULL

\* C28: an element assertion of a type that needs an expected value, called
\* with neither value nor expected, fails with an error before any call to
\* the browser is made, with or without a ref: the handler has thrown and its
\* trace of browser calls is empty.
C28_MissingValueFailsFirst ==
  (/\ tool.name = "browser_expect_element"
   /\ tool.params.assertion \in ValueAssertions
   /\ tool.params.value = Undefined /\ tool.params.expected = Undefined) =>
    (tool.pc = "thrown" /\ tool.trace = <<>>)

\* what browser_type dispatches when every step succeeds: one fill of the
\* text, or with slowly its characters in text order, then Enter when submit
TypeSequence(params) ==
  (IF params.slowly
   THEN [k \in 1..Len(params.text) |-> [op |-> "key", text |-> <<params.text[k]>>]]
   ELSE <<[op |-> "fill", text |-> params.text]>>)
    \o (IF params.submit THEN <<[op |-> "press", text |-> <<"Enter">>]>> ELSE <<>>)

\* C22: browser_type runs its steps strictly in sequence. At every moment
\* what has been dispatched is a prefix of the text entry followed by Enter
\* (Enter only with submit, and only after the whole text entry); a call that
\* completed dispatched all of it, and a call that failed dispatched nothing
\* after the failed step, so no Enter follows a failed text entry.
C22_TypeStepsInSequence ==
  tool.name = "browser_type" =>
    LET expected == TypeSequence(tool.params)
    IN /\ Len(tool.keys) <= Len(expected)
       /\ tool.keys = SubSeq(expected, 1, Len(tool.keys))
       /\ tool.pc = "done" => tool.keys = expected
       /\ (tool.pc = "thrown" /\ tool.params.submit) => Len(tool.keys) < Len(expected)

\* a two-character text was keyed slowly and submitted
C22_Witness ==
  /\ tool.name = "browser_type" /\ tool.pc = "done"
  /\ tool.params.slowly /\ tool.params.submit
  /\ Len(tool.params.text) = 2 /\ Len(tool.keys) = 3

\* a step of one of the read-only query tools
QueryStep(name) == tool' # tool /\ (tool.name = name \/ tool'.name = name)

\* C30: the read-only query tools never replace an existing snapshot. No
\* step of detect-page-change or of get-element-attributes changes the tab's
\* snapshot; a step of bulk attributes or of discover-refs changes it only
\* when the tab had none, at the capture of the handler; and discover-refs
\* goes on to its evaluation whatever became of that capture.
C30_QueriesKeepSnapshot ==
  [][/\ (calls' # calls \/ QueryStep("browser_get_element_attributes")) => snapshot' = snapshot
     /\ (QueryStep("browser_get_bulk_attributes") \/ QueryStep("browser_discover_interactive_refs")) =>
          /\ snapshot # NULL => snapshot' = snapshot
          /\ snapshot' # snapshot => tool.pc = "snapshot"
     /\ (tool.name = "browser_discover_interactive_refs" /\ tool.pc = "snapshot" /\ tool' # tool) =>
          /\ tool'.pc = "evaluate"
          /\ snapshot = NULL => snapshot' \in {NULL, CaptureSnapshot(dom, tool.params.includeHidden)}
     /\ (tool.name = "browser_discover_interactive_refs" /\ tool.pc = "evaluate"
           /\ tool'.pc = "done" /\ tool'.result.data # NULL) =>
          tool'.result.data.candidates = Candidates(dom, tool.params.max)]_vars

\* discovery returned its candidates on a tab that had a snapshot of another
\* document than the current one, after the detector ran on the tab, and the
\* snapshot is still that one
C30_Witness ==
  /\ tool.name = "browser_discover_interactive_refs" /\ tool.pc = "done"
  /\ snapshot # NULL /\ snapshot # CaptureSnapshot(dom, FALSE)
  /\ tool.result.data # NULL /\ Len(tool.result.data.candidates) > 0
  /\ lastCollected["tabB"] # NULL
====
